---- MODULE Spec2Model ----
(***************************************************************************)
(* A model of the canteen simulation: the processes of canteen.py and      *)
(* station.py (simulation, service, serve, work, getResource, pay) running *)
(* on the event queue of the discrete-event engine they are written for.   *)
(*                                                                         *)
(* Simulated durations are abstracted: a timeout of positive delay goes to *)
(* `timers` and any non-empty group of pending timers may become due at    *)
(* the same instant (in creation order); a timeout of delay zero joins the *)
(* events of the current instant.  Events of one instant are processed in  *)
(* scheduling order, process initialisations (urgent) first.               *)
(***************************************************************************)
EXTENDS Integers, Sequences, FiniteSets, TLC

\* ------------------------------------------------------------------ sizes
NCust == 3
NEmp == 2
NStations == 2
MaxProducts == 2
StoreCapacity == 2
CanteenCapacity == 2
CashCapacity == 1
InitEnergy == 100

\* priority.py
URGENT == 5
MEDIUM == 7
NORMAL == 10
EXTRAORDINARY == 1

Customers == 1..NCust
Employees == 1..NEmp
Stations == 1..NStations

\* resources: the employees, the cash point, the canteen itself
CashRes == NEmp + 1
CanteenRes == NEmp + 2
Resources == 1..(NEmp + 2)

\* main.py: stations alternate between self-service and attended ones
Kind(s) == IF s % 2 = 1 THEN "self" ELSE "attended"
\* a self-service station handles MaxProducts products, an attended one a single one
Products(s) == IF Kind(s) = "self" THEN 1..MaxProducts ELSE 1..1

\* every service station s has its own ProductiveStation, Supplier(s)
Supplier(s) == s + NStations
Containers == 1..(2 * NStations)
\* the stations that are ResourceManagers: attended stations and suppliers
Managers == {s \in Stations : Kind(s) = "attended"} \cup {Supplier(s) : s \in Stations}
\* capacities: the first product of a station has room for StoreCapacity
\* units, the other ones for one unit less
Cap(k, pd) == IF pd = 1 THEN StoreCapacity ELSE StoreCapacity - 1


\* ------------------------------------------------------------ processes
Proc(t, i, j) == [t |-> t, i |-> i, j |-> j]
NoProc == Proc("none", 0, 0)
Sim == Proc("sim", 0, 0)
Svc(c) == Proc("svc", c, 0)
Srv(c) == Proc("srv", c, 0)
Grc(c) == Proc("grc", c, 0)
Pay(c) == Proc("pay", c, 0)
Wrk(s, pd) == Proc("wrk", s, pd)
Grw(s, pd) == Proc("grw", s, pd)
WorkIds == {<<s, pd>> \in Stations \X (1..MaxProducts) : pd \in Products(s)}
Works == {Wrk(w[1], w[2]) : w \in WorkIds}
GetRes == {Grc(c) : c \in Customers} \cup {Grw(w[1], w[2]) : w \in WorkIds}
Procs == {Sim} \cup {Svc(c) : c \in Customers} \cup {Srv(c) : c \in Customers}
          \cup {Pay(c) : c \in Customers} \cup Works \cup GetRes

\* ------------------------------------------------------- events, requests
Ev(k, p, r, x) == [k |-> k, p |-> p, r |-> r, x |-> x]
InitEv(p) == Ev("init", p, 0, 0)
TimeoutEv(p) == Ev("timeout", p, 0, 0)
DoneEv(p) == Ev("done", p, 0, 0)
\* a process that ended with an exception: the event carries the exception's name
Exceptions == {"ResourceError", "AttributeError", "ValueError"}
FailEv(p, exc) == Ev(exc, p, 0, 0)
CondEv(p) == Ev("cond", p, 0, 0)
ReleaseEv(r) == Ev("release", NoProc, r, 0)
GetEv(p, k, pd) == Ev("get", p, k, pd)
PutEv(k, pd) == Ev("put", NoProc, k, pd)

Req(o, r, pr) == [o |-> o, r |-> r, pr |-> pr]
NoReq == Req(NoProc, 0, 0)
RequestEv(rq) == Ev("request", rq.o, rq.r, rq.pr)

VARIABLES
    queue,            \* the events of the current instant, in processing order
    timers,           \* the pending timeouts of positive delay, in creation order
    users,            \* users[r]: the requests holding resource r
    put_queue,        \* put_queue[r]: the requests waiting for resource r
    level,            \* level[k][pd]: quantity of product pd in container k
    get_queue,        \* get_queue[k][pd]: the pending gets of container k, product pd
    current_request,  \* current_request[m]: the request held by manager m, or NoReq
    waiting_refill,   \* waiting_refill[s]
    energy,           \* energy[e] of employee e (CashRes: the cash point's employee)
    pc,               \* pc[p]: where process p is suspended
    idx,              \* idx[c]: the station customer c's service() is at
    product,          \* product[p]: the product of serve process / work process p
    employee,         \* employee[p]: the local variable `employee` of serve / work p
    gr,               \* gr[g]: the local state of getResource process g
    next_customer,    \* the customer simulation() handles next
    exited,           \* exited[c]: customer.exit has been recorded
    in_flight,        \* in_flight[w]: number of work() processes running for w
    crashed,          \* "" or the exception that ended the run
    menu,             \* menu[c][s] in {0, 1}
    employees,        \* employees[m]: the pool (a tuple) of manager m
    keep,             \* keep[w]: the keep flag of product w[2] at Supplier(w[1])
    reorder_levels,   \* reorder_levels[s][pd]
    granted,          \* the requests granted on the employee under test, in order
    capacity,         \* the capacity the Canteen was built with
    arrival,          \* arrival[c]: customer.arrival
    now,              \* env.now, in instants
    exit              \* exit[c]: customer.exit, -1 while not recorded

config == <<menu, employees, keep, reorder_levels, capacity, arrival>>
clock == <<now, exit>>
engine == <<queue, timers, users, put_queue, level, get_queue, current_request>>
locals == <<pc, idx, product, employee, gr, next_customer, exited, in_flight>>
vars == <<engine, waiting_refill, energy, locals, crashed, config, granted, clock>>

\* A cash point with two lanes.
CapacityTwoLanes(r) == IF r = CanteenRes THEN capacity ELSE IF r = CashRes THEN CashCapacity + 1 ELSE 1

\* The slots of a resource: the canteen as built, the cash point, one per employee.
Capacity(r) == IF r = CanteenRes THEN capacity ELSE IF r = CashRes THEN CashCapacity ELSE 1

\* --------------------------------------------------------------- helpers
RECURSIVE SeqRemove(_, _)
SeqRemove(s, x) ==
    IF s = <<>> THEN <<>>
    ELSE IF Head(s) = x THEN Tail(s)
    ELSE <<Head(s)>> \o SeqRemove(Tail(s), x)

SeqToSet(s) == {s[i] : i \in 1..Len(s)}

Min(a, b) == IF a <= b THEN a ELSE b

\* The engine state an operation works on, as one record.
St == [q |-> queue, tm |-> timers, users |-> users, pq |-> put_queue, lvl |-> level,
       gq |-> get_queue, cur |-> current_request, exc |-> ""]

Commit(S) ==
    /\ queue' = S.q
    /\ timers' = S.tm
    /\ users' = S.users
    /\ put_queue' = S.pq
    /\ level' = S.lvl
    /\ get_queue' = S.gq
    /\ current_request' = S.cur

\* The engine state after the head event has been taken from the queue.
Pop == [St EXCEPT !.q = Tail(queue)]

\* Environment.schedule at the current instant, normal priority.
Schedule(S, ev) == [S EXCEPT !.q = Append(@, ev)]

\* A process whose Initialize event is scheduled like any other event.
StartProcessLast(S, p) == [S EXCEPT !.q = Append(@, InitEv(p))]

\* Environment.process: the Initialize event is urgent, so it is processed before
\* the normal events of the instant and after the urgent ones already scheduled.
UrgentPrefix(q) == Cardinality({i \in 1..Len(q) : \A j \in 1..i : q[j].k = "init"})
StartProcess(S, p) ==
    LET n == UrgentPrefix(S.q)
    IN [S EXCEPT !.q = SubSeq(@, 1, n) \o <<InitEv(p)>> \o SubSeq(@, n + 1, Len(@))]

\* env.timeout(d): d = 0 joins the current instant, d > 0 waits in timers.
Timeout(S, p, zero) ==
    IF zero THEN Schedule(S, TimeoutEv(p)) ELSE [S EXCEPT !.tm = Append(@, TimeoutEv(p))]

\* ------------------------------------------- Employee (a PriorityResource)
\* A queue where a new request overtakes the waiting requests of its own priority.
InsertBeforeEqual(s, rq) ==
    LET n == Cardinality({i \in 1..Len(s) : s[i].pr < rq.pr})
    IN SubSeq(s, 1, n) \o <<rq>> \o SubSeq(s, n + 1, Len(s))

\* The waiting requests are kept sorted by priority value, ties in arrival order.
InsertSorted(s, rq) ==
    LET n == Cardinality({i \in 1..Len(s) : s[i].pr <= rq.pr})
    IN SubSeq(s, 1, n) \o <<rq>> \o SubSeq(s, n + 1, Len(s))

\* A resource that grants its first waiting request without counting its users.
DoPutUnbounded(S, r) ==
    LET h == Head(S.pq[r])
    IN [S EXCEPT !.users[r] = @ \cup {h}, !.pq[r] = Tail(@), !.q = Append(@, RequestEv(h))]

\* The resource grants its first waiting request when a slot is free.
DoPut(S, r) ==
    LET h == Head(S.pq[r])
    IN IF Cardinality(S.users[r]) < Capacity(r)
       THEN [S EXCEPT !.users[r] = @ \cup {h}, !.pq[r] = Tail(@), !.q = Append(@, RequestEv(h))]
       ELSE S

TriggerPut(S, r) == IF S.pq[r] = <<>> THEN S ELSE DoPut(S, r)

\* A preemptive resource: a request takes the place of a user of lower priority.
RequestPreempting(S, rq) ==
    IF \E u \in S.users[rq.r] : rq.pr < u.pr
    THEN [S EXCEPT !.users[rq.r] = {rq}, !.q = Append(@, RequestEv(rq))]
    ELSE TriggerPut([S EXCEPT !.pq[rq.r] = InsertSorted(@, rq)], rq.r)

\* resource.request(priority): the request joins the queue, then the head is tried.
Request(S, rq) == TriggerPut([S EXCEPT !.pq[rq.r] = InsertSorted(@, rq)], rq.r)

\* resource.release(request): the slot is freed at once; the waiting requests are
\* looked at when the release event is processed.
Release(S, rq) == [S EXCEPT !.users[rq.r] = @ \ {rq}, !.q = Append(@, ReleaseEv(rq.r))]

\* request.cancel(): only a request that was not granted is withdrawn.
Cancel(S, rq) == [S EXCEPT !.pq[rq.r] = SeqRemove(@, rq)]

\* ------------------------------------------------------------ MultiStore
\* A container that hands out what is asked whatever its level.
EnoughAlways(S, k, pd, n) == TRUE

\* The container serves a get when its level covers the amount.
Enough(S, k, pd, n) == S.lvl[k][pd] >= n

\* The first pending get is served: its amount leaves the container.
DoGet(S, k, pd) ==
    LET g == Head(S.gq[k][pd])
    IN [S EXCEPT !.lvl[k][pd] = @ - g.n, !.gq[k][pd] = Tail(@), !.q = Append(@, GetEv(g.p, k, pd))]

\* The pending gets of a container are served in order while the level allows.
RECURSIVE TriggerGet(_, _, _)
TriggerGet(S, k, pd) ==
    IF S.gq[k][pd] = <<>> THEN S
    ELSE IF Enough(S, k, pd, Head(S.gq[k][pd]).n)
         THEN TriggerGet(DoGet(S, k, pd), k, pd)
         ELSE S

\* A get that is served at once whatever the level.
GetAtOnce(S, k, pd, p, amount) ==
    [S EXCEPT !.lvl[k][pd] = @ - amount, !.q = Append(@, GetEv(p, k, pd))]

\* MultiStore.get(product, amount)
Get(S, k, pd, p, amount) ==
    TriggerGet([S EXCEPT !.gq[k][pd] = Append(@, [p |-> p, n |-> amount])], k, pd)

\* MultiStore.put(product, amount): the amount is cut to the room left, so the put
\* is done at once; an amount of zero is refused by the container (ValueError).
PutAmount(S, k, pd, amount) == Min(amount, Cap(k, pd) - S.lvl[k][pd])
Put(S, k, pd, amount) ==
    LET n == PutAmount(S, k, pd, amount)
    IN IF n <= 0 THEN [S EXCEPT !.exc = "ValueError"]
       ELSE [S EXCEPT !.lvl[k][pd] = @ + n, !.q = Append(@, PutEv(k, pd))]

Level(S, k, pd) == S.lvl[k][pd]

\* ------------------------------------------------------- ResourceManager
\* The manager a getResource process works for.
ManagerOf(g) == IF g.t = "grc" THEN idx[g.i] ELSE Supplier(g.i)
\* The process that waits for getResource process g.
ParentOf(g) == IF g.t = "grc" THEN Srv(g.i) ELSE Wrk(g.i, g.j)

RECURSIVE Broadcast(_, _, _, _)
Broadcast(S, g, pool, prio) ==
    IF pool = <<>> THEN S
    ELSE Broadcast(Request(S, Req(g, Head(pool), prio)), g, Tail(pool), prio)

RECURSIVE CancelAll(_, _, _, _)
CancelAll(S, g, pool, prio) ==
    IF pool = <<>> THEN S
    ELSE CancelAll(Cancel(S, Req(g, Head(pool), prio)), g, Tail(pool), prio)

\* condition_value.events[0]: the first request of the broadcast, in pool order,
\* whose event has been processed.
Winner(pool, fired) == pool[CHOOSE i \in 1..Len(pool) : pool[i] \in fired /\ \A j \in 1..(i - 1) : pool[j] \notin fired]

\* A releaseResource() that lets the caller go on when nothing is held.
ReleaseResourceLenient(S, m) ==
    IF S.cur[m] = NoReq THEN S
    ELSE [Release(S, S.cur[m]) EXCEPT !.cur[m] = NoReq]

\* releaseResource()
ReleaseResource(S, m) ==
    IF S.cur[m] = NoReq THEN [S EXCEPT !.exc = "ResourceError"]
    ELSE [Release(S, S.cur[m]) EXCEPT !.cur[m] = NoReq]
\* ------------------------------------------------------------ the engine
Fire(ev) == crashed = "" /\ queue # <<>> /\ Head(queue) = ev

RECURSIVE Pick(_, _, _)
Pick(s, D, i) ==
    IF i > Len(s) THEN <<>>
    ELSE (IF i \in D THEN <<s[i]>> ELSE <<>>) \o Pick(s, D, i + 1)

\* The clock advances: every event of the instant has been processed, and a group
\* of pending timeouts becomes due together, in the order they were created.
TimersDue ==
    /\ crashed = ""
    /\ queue = <<>>
    /\ timers # <<>>
    /\ \E D \in (SUBSET (1..Len(timers))) \ {{}} :
          /\ queue' = Pick(timers, D, 1)
          /\ timers' = Pick(timers, (1..Len(timers)) \ D, 1)
    /\ UNCHANGED <<users, put_queue, level, get_queue, current_request>>
    /\ UNCHANGED <<waiting_refill, energy, locals, crashed, config, granted, clock>>

\* A release event is processed: the resource looks at its waiting requests.
ReleaseProcessed ==
    \E r \in Resources :
       /\ Fire(ReleaseEv(r))
       /\ Commit(TriggerPut(Pop, r))
       /\ UNCHANGED <<waiting_refill, energy, locals, crashed, config, granted, clock>>

\* A put event is processed: the container looks at its pending gets.
PutProcessed ==
    \E k \in Containers, pd \in 1..MaxProducts :
       /\ Fire(PutEv(k, pd))
       /\ Commit(TriggerGet(Pop, k, pd))
       /\ UNCHANGED <<waiting_refill, energy, locals, crashed, config, granted, clock>>

\* Events nobody waits for: the end of a detached process, the get of work()
\* (not yielded), the event of a request whose getResource call is over.
NobodyWaits(ev) ==
    \/ ev.k = "done" /\ ev.p.t \in {"sim", "svc", "wrk"}
    \/ ev.k = "get" /\ ev.p.t = "wrk"
    \/ ev.k = "request" /\ ev.p.t \in {"grc", "grw"} /\ pc[ev.p] # "wait"
    \/ ev.k = "request" /\ ev.p.t \in {"grc", "grw"} /\ pc[ev.p] = "wait"
          /\ gr[ev.p].mode = "any" /\ ev.x # gr[ev.p].prio

NoCallback ==
    /\ crashed = ""
    /\ queue # <<>>
    /\ NobodyWaits(Head(queue))
    /\ Commit(Pop)
    /\ UNCHANGED <<waiting_refill, energy, locals, crashed, config, granted, clock>>

\* A process that nobody waits for ended with an exception: the run stops with it.
Crash ==
    /\ crashed = ""
    /\ queue # <<>>
    /\ Head(queue).k \in Exceptions
    /\ Head(queue).p.t \in {"svc", "wrk"}
    /\ crashed' = Head(queue).k
    /\ Commit(Pop)
    /\ UNCHANGED <<waiting_refill, energy, locals, config, granted, clock>>

\* ------------------------------------------------------------ simulation
\* simulation(): the customers whose arrival is not in the future are started at
\* once, in sequence order; the process then waits for the next arrival.
RECURSIVE StartServices(_, _, _)
StartServices(S, c, n) ==
    IF n = 0 THEN S ELSE StartServices(StartProcess(S, Svc(c)), c + 1, n - 1)

\* the loop of simulation() from customer next_customer on: n services are started
\* and the process waits for the next arrival, or ends after the last customer
StartUpTo(n) ==
    /\ LET S1 == StartServices(Pop, next_customer, n)
           last == next_customer + n > NCust
       IN /\ Commit(IF last THEN Schedule(S1, DoneEv(Sim)) ELSE Timeout(S1, Sim, FALSE))
          /\ pc' = [p \in Procs |->
                      IF p = Sim THEN (IF last THEN "done" ELSE "timeout")
                      ELSE IF p.t = "svc" /\ p.i \in next_customer..(next_customer + n - 1)
                           THEN "init" ELSE pc[p]]
    /\ next_customer' = next_customer + n
    /\ UNCHANGED <<waiting_refill, energy, idx, product, employee, gr, exited, in_flight>>
    /\ UNCHANGED <<crashed, config, granted, clock>>

Simulation ==
    /\ \/ Fire(InitEv(Sim)) /\ pc[Sim] = "init"
       \/ Fire(TimeoutEv(Sim)) /\ pc[Sim] = "timeout"
    /\ \E n \in 0..(NCust + 1 - next_customer) :
          /\ pc[Sim] = "timeout" => n >= 1
          /\ StartUpTo(n)

\* --------------------------------------------------------------- service
\* A canteen where the customers that came later are let in first.
CanteenReqLastFirst(c) == Req(Svc(c), CanteenRes, 0 - c)

CanteenReq(c) == Req(Svc(c), CanteenRes, 0)
CashReq(c) == Req(Svc(c), CashRes, 0)

\* A customer that keeps its place in the canteen when its visit ends.
LeaveCanteenNever(S, c) == S

\* The `with canteen.request() as req` block is left: the place is released.
LeaveCanteen(S, c) == Release(S, CanteenReq(c))

\* The stations customer c still has to visit after station i.
ToVisit(c, i) == {s \in Stations : s > i /\ menu[c][s] = 1}
\* A loop over the menu that goes to the last flagged station first.
NextStationLast(c, i) == CHOOSE s \in ToVisit(c, i) : \A t \in ToVisit(c, i) : s >= t
NextStation(c, i) == CHOOSE s \in ToVisit(c, i) : \A t \in ToVisit(c, i) : s <= t

\* service(), first step: the customer asks for a place in the canteen.
ServiceStart ==
    \E c \in Customers :
       /\ Fire(InitEv(Svc(c)))
       /\ Commit(Request(Pop, CanteenReq(c)))
       /\ pc' = [pc EXCEPT ![Svc(c)] = "canteen"]
       /\ UNCHANGED <<waiting_refill, energy, idx, product, employee, gr, next_customer>>
       /\ UNCHANGED <<exited, in_flight, crashed, config, granted, clock>>

\* service(), the loop over the menu, resumed after station i (0: after admission):
\* the next flagged station is visited with a product chosen among its products,
\* or, when none is left, the cash point is requested.
ServiceLoop(c, i) ==
    IF ToVisit(c, i) # {}
    THEN LET s == NextStation(c, i)
         IN /\ \E pd \in Products(s) : product' = [product EXCEPT ![Srv(c)] = pd]
            /\ idx' = [idx EXCEPT ![c] = s]
            /\ Commit(StartProcess(Pop, Srv(c)))
            /\ pc' = [pc EXCEPT ![Svc(c)] = "serve", ![Srv(c)] = "init"]
    ELSE /\ idx' = [idx EXCEPT ![c] = NStations + 1]
         /\ Commit(Request(Pop, CashReq(c)))
         /\ pc' = [pc EXCEPT ![Svc(c)] = "cash", ![Srv(c)] = "none"]
         /\ UNCHANGED product

ServiceAdmitted ==
    \E c \in Customers :
       /\ Fire(RequestEv(CanteenReq(c)))
       /\ pc[Svc(c)] = "canteen"
       /\ ServiceLoop(c, 0)
       /\ UNCHANGED <<waiting_refill, energy, employee, gr, next_customer>>
       /\ UNCHANGED <<exited, in_flight, crashed, config, granted, clock>>

ServiceServed ==
    \E c \in Customers :
       /\ Fire(DoneEv(Srv(c)))
       /\ pc[Svc(c)] = "serve"
       /\ ServiceLoop(c, idx[c])
       /\ UNCHANGED <<waiting_refill, energy, employee, gr, next_customer>>
       /\ UNCHANGED <<exited, in_flight, crashed, config, granted, clock>>

\* serve() ended with an exception: it is raised in service(), which leaves the
\* `with` block of the canteen request (the place is released) and fails too.
ServiceFailed ==
    \E c \in Customers, exc \in Exceptions :
       /\ Fire(FailEv(Srv(c), exc))
       /\ pc[Svc(c)] = "serve"
       /\ Commit(Schedule(LeaveCanteen(Pop, c), FailEv(Svc(c), exc)))
       /\ pc' = [pc EXCEPT ![Svc(c)] = "failed"]
       /\ UNCHANGED <<waiting_refill, energy, idx, product, employee, gr, next_customer>>
       /\ UNCHANGED <<exited, in_flight, crashed, config, granted, clock>>

\* service(): the cash point is granted, pay() is started.
ServiceAtCash ==
    \E c \in Customers :
       /\ Fire(RequestEv(CashReq(c)))
       /\ pc[Svc(c)] = "cash"
       /\ Commit(StartProcess(Pop, Pay(c)))
       /\ pc' = [pc EXCEPT ![Svc(c)] = "pay", ![Pay(c)] = "init"]
       /\ UNCHANGED <<waiting_refill, energy, idx, product, employee, gr, next_customer>>
       /\ UNCHANGED <<exited, in_flight, crashed, config, granted, clock>>

\* service(): pay() is over; the exit is recorded, the cash point and then the
\* canteen are released as the two `with` blocks are left.
ServiceExit ==
    \E c \in Customers :
       /\ Fire(DoneEv(Pay(c)))
       /\ pc[Svc(c)] = "pay"
       /\ exited' = [exited EXCEPT ![c] = TRUE]
       /\ exit' = [exit EXCEPT ![c] = now]
       /\ Commit(Schedule(LeaveCanteen(Release(Pop, CashReq(c)), c), DoneEv(Svc(c))))
       /\ pc' = [pc EXCEPT ![Svc(c)] = "done"]
       /\ UNCHANGED <<waiting_refill, energy, idx, product, employee, gr, next_customer>>
       /\ UNCHANGED <<in_flight, crashed, config, granted, now>>

\* ------------------------------------------------------------------ Cash
\* Cash.pay(): the energy of the cash point's employee is decreased, then the
\* process waits for the duration of the payment.
PayStart ==
    \E c \in Customers, zero \in BOOLEAN :
       /\ Fire(InitEv(Pay(c)))
       /\ energy' = [energy EXCEPT ![CashRes] = @ - 1]
       /\ Commit(Timeout(Pop, Pay(c), zero))
       /\ pc' = [pc EXCEPT ![Pay(c)] = "timeout"]
       /\ UNCHANGED <<waiting_refill, idx, product, employee, gr, next_customer>>
       /\ UNCHANGED <<exited, in_flight, crashed, config, granted, clock>>

PayEnd ==
    \E c \in Customers :
       /\ Fire(TimeoutEv(Pay(c)))
       /\ Commit(Schedule(Pop, DoneEv(Pay(c))))
       /\ pc' = [pc EXCEPT ![Pay(c)] = "done"]
       /\ UNCHANGED <<waiting_refill, energy, idx, product, employee, gr, next_customer>>
       /\ UNCHANGED <<exited, in_flight, crashed, config, granted, clock>>
\* ------------------------------------------------------- getResource
GrIdle == [prio |-> 0, mode |-> "", target |-> 0, fired |-> {}, cond |-> FALSE]
GrCall(prio) == [GrIdle EXCEPT !.prio = prio]

\* A process that raised: its failure is scheduled like any other event.
Raise(S, p) == Schedule([S EXCEPT !.exc = ""], FailEv(p, S.exc))

\* A second request made at the priority of an ordinary one.
EscalationNormal(g, m) == Req(g, current_request[m].r, NORMAL)

\* The single request of the branch taken when the station has a current_request.
Escalation(g, m) == Req(g, current_request[m].r, EXTRAORDINARY)

\* getResource(), up to its yield: a request to every employee of the pool, or,
\* when the station has a current_request, one request to that request's employee.
GetResourceStart ==
    \E g \in GetRes :
       /\ Fire(InitEv(g))
       /\ LET m == ManagerOf(g)
          IN IF current_request[m] = NoReq
             THEN /\ Commit(Broadcast(Pop, g, employees[m], gr[g].prio))
                  /\ gr' = [gr EXCEPT ![g].mode = "any"]
             ELSE /\ Commit(Request(Pop, Escalation(g, m)))
                  /\ gr' = [gr EXCEPT ![g].mode = "ext", ![g].target = current_request[m].r]
       /\ pc' = [pc EXCEPT ![g] = "wait"]
       /\ UNCHANGED <<waiting_refill, energy, idx, product, employee, next_customer>>
       /\ UNCHANGED <<exited, in_flight, crashed, config, granted, clock>>

\* The event of a request of the broadcast is processed: the any_of condition is
\* triggered by the first one, and is itself processed later in the instant.
RequestChecked ==
    \E g \in GetRes, e \in Employees :
       /\ pc[g] = "wait"
       /\ gr[g].mode = "any"
       /\ Fire(RequestEv(Req(g, e, gr[g].prio)))
       /\ gr' = [gr EXCEPT ![g].fired = @ \cup {e}, ![g].cond = TRUE]
       /\ Commit(IF gr[g].cond THEN Pop ELSE Schedule(Pop, CondEv(g)))
       /\ UNCHANGED <<waiting_refill, energy, pc, idx, product, employee, next_customer>>
       /\ UNCHANGED <<exited, in_flight, crashed, config, granted, clock>>

\* A getResource() that takes any of the granted requests of its broadcast.
GetResourceWonAny ==
    \E g \in GetRes :
       /\ Fire(CondEv(g))
       /\ \E e \in gr[g].fired :
             LET m == ManagerOf(g)
                 req == Req(g, e, gr[g].prio)
                 S1 == [Pop EXCEPT !.cur[m] = req]
                 S2 == CancelAll(S1, g, employees[m], gr[g].prio)
             IN Commit(Schedule(S2, DoneEv(g)))
       /\ pc' = [pc EXCEPT ![g] = "done"]
       /\ UNCHANGED <<waiting_refill, energy, idx, product, employee, gr, next_customer>>
       /\ UNCHANGED <<exited, in_flight, crashed, config, granted, clock>>

\* The any_of condition is processed: getResource() takes the first processed
\* request as the winner, records it and cancels every request of the broadcast.
GetResourceWon ==
    \E g \in GetRes :
       /\ Fire(CondEv(g))
       /\ LET m == ManagerOf(g)
              req == Req(g, Winner(employees[m], gr[g].fired), gr[g].prio)
              S1 == [Pop EXCEPT !.cur[m] = req]
              S2 == CancelAll(S1, g, employees[m], gr[g].prio)
          IN Commit(Schedule(S2, DoneEv(g)))
       /\ pc' = [pc EXCEPT ![g] = "done"]
       /\ UNCHANGED <<waiting_refill, energy, idx, product, employee, gr, next_customer>>
       /\ UNCHANGED <<exited, in_flight, crashed, config, granted, clock>>

\* The extraordinary request is granted: it becomes the current_request.
GetResourceBack ==
    \E g \in GetRes :
       /\ pc[g] = "wait"
       /\ gr[g].mode = "ext"
       /\ Fire(RequestEv(Req(g, gr[g].target, EXTRAORDINARY)))
       /\ Commit(Schedule([Pop EXCEPT !.cur[ManagerOf(g)] = Req(g, gr[g].target, EXTRAORDINARY)],
                          DoneEv(g)))
       /\ pc' = [pc EXCEPT ![g] = "done"]
       /\ UNCHANGED <<waiting_refill, energy, idx, product, employee, gr, next_customer>>
       /\ UNCHANGED <<exited, in_flight, crashed, config, granted, clock>>

\* ----------------------------------- SelfServiceStation / ServiceStation
\* A serve() that asks for an employee together with the unit of product.
TakeUnitHolding(S, c) ==
    LET S1 == Get(S, idx[c], product[Srv(c)], Srv(c), 1)
    IN IF Kind(idx[c]) = "attended" THEN StartProcess(S1, Grc(c)) ELSE S1

\* yield self.get(product, 1)
TakeUnit(S, c) == Get(S, idx[c], product[Srv(c)], Srv(c), 1)

\* serve(), first step: one unit of the product is asked to the container.
ServeStart ==
    \E c \in Customers :
       /\ Fire(InitEv(Srv(c)))
       /\ Commit(TakeUnit(Pop, c))
       /\ pc' = [pc EXCEPT ![Srv(c)] = "get"]
       /\ UNCHANGED <<waiting_refill, energy, idx, product, employee, gr, next_customer>>
       /\ UNCHANGED <<exited, in_flight, crashed, config, granted, clock>>

\* SelfServiceStation.serve(): the unit was obtained, the service time starts.
SelfServeGot ==
    \E c \in Customers, zero \in BOOLEAN :
       /\ idx[c] \in Stations
       /\ Kind(idx[c]) = "self"
       /\ Fire(GetEv(Srv(c), idx[c], product[Srv(c)]))
       /\ Commit(Timeout(Pop, Srv(c), zero))
       /\ pc' = [pc EXCEPT ![Srv(c)] = "timeout"]
       /\ UNCHANGED <<waiting_refill, energy, idx, product, employee, gr, next_customer>>
       /\ UNCHANGED <<exited, in_flight, crashed, config, granted, clock>>

\* ServiceStation.serve(): the unit was obtained, an employee is asked for.
ServeGot ==
    \E c \in Customers :
       /\ idx[c] \in Stations
       /\ Kind(idx[c]) = "attended"
       /\ Fire(GetEv(Srv(c), idx[c], product[Srv(c)]))
       /\ Commit(StartProcess(Pop, Grc(c)))
       /\ gr' = [gr EXCEPT ![Grc(c)] = GrCall(NORMAL)]
       /\ pc' = [pc EXCEPT ![Srv(c)] = "acquire", ![Grc(c)] = "init"]
       /\ UNCHANGED <<waiting_refill, energy, idx, product, employee, next_customer>>
       /\ UNCHANGED <<exited, in_flight, crashed, config, granted, clock>>

\* ServiceStation.serve(): getResource() is over; the employee is read from the
\* station's current_request and the service time starts.
ServeAcquired ==
    \E c \in Customers, zero \in BOOLEAN :
       /\ Fire(DoneEv(Grc(c)))
       /\ pc[Srv(c)] = "acquire"
       /\ IF current_request[idx[c]] = NoReq
          THEN /\ Commit(Raise([Pop EXCEPT !.exc = "AttributeError"], Srv(c)))
               /\ pc' = [pc EXCEPT ![Srv(c)] = "failed", ![Grc(c)] = "none"]
               /\ UNCHANGED employee
          ELSE /\ employee' = [employee EXCEPT ![Srv(c)] = current_request[idx[c]].r]
               /\ Commit(Timeout(Pop, Srv(c), zero))
               /\ pc' = [pc EXCEPT ![Srv(c)] = "timeout", ![Grc(c)] = "none"]
       /\ UNCHANGED <<waiting_refill, energy, idx, product, gr, next_customer>>
       /\ UNCHANGED <<exited, in_flight, crashed, config, granted, clock>>

\* A test that only looks at the level.
NeedsWorkByLevel(S, s, pd) == Level(S, s, pd) <= reorder_levels[s][pd]

\* The test that ends serve(): the level is at or under the reorder level and the
\* station is not waiting for a refill.
NeedsWork(S, s, pd) == Level(S, s, pd) <= reorder_levels[s][pd] /\ ~waiting_refill[s]

\* A serve() that waits for the work() it starts: it only ends by itself when no
\* work() is needed.
ServeFinishWaiting(S, c, s, pd) ==
    LET start == NeedsWork(S, s, pd)
    IN /\ Commit(IF start THEN StartProcess(S, Wrk(s, pd)) ELSE Schedule(S, DoneEv(Srv(c))))
       /\ waiting_refill' = IF start THEN [waiting_refill EXCEPT ![s] = TRUE] ELSE waiting_refill
       /\ in_flight' = IF start THEN [in_flight EXCEPT ![<<s, pd>>] = @ + 1] ELSE in_flight
       /\ pc' = [pc EXCEPT ![Srv(c)] = "done", ![Wrk(s, pd)] = IF start THEN "init" ELSE @]

\* The end of serve(): a work() of the supplier is started when needed.
ServeFinish(S, c, s, pd) ==
    LET start == NeedsWork(S, s, pd)
        S1 == IF start THEN StartProcess(S, Wrk(s, pd)) ELSE S
    IN /\ Commit(Schedule(S1, DoneEv(Srv(c))))
       /\ waiting_refill' = IF start THEN [waiting_refill EXCEPT ![s] = TRUE] ELSE waiting_refill
       /\ in_flight' = IF start THEN [in_flight EXCEPT ![<<s, pd>>] = @ + 1] ELSE in_flight
       /\ pc' = [pc EXCEPT ![Srv(c)] = "done", ![Wrk(s, pd)] = IF start THEN "init" ELSE @]

\* SelfServiceStation.serve(), after the service time.
SelfServeEnd ==
    \E c \in Customers :
       /\ Fire(TimeoutEv(Srv(c)))
       /\ Kind(idx[c]) = "self"
       /\ ServeFinish(Pop, c, idx[c], product[Srv(c)])
       /\ UNCHANGED <<energy, idx, product, employee, gr, next_customer>>
       /\ UNCHANGED <<exited, crashed, config, granted, clock>>

\* ServiceStation.serve(), after the service time: the energy of the employee is
\* decreased, the resource is released, then as for a self-service station.
ServeEnd ==
    \E c \in Customers :
       /\ Fire(TimeoutEv(Srv(c)))
       /\ Kind(idx[c]) = "attended"
       /\ energy' = [energy EXCEPT ![employee[Srv(c)]] = @ - 1]
       /\ LET S1 == ReleaseResource(Pop, idx[c])
          IN IF S1.exc # ""
             THEN /\ Commit(Raise(S1, Srv(c)))
                  /\ pc' = [pc EXCEPT ![Srv(c)] = "failed"]
                  /\ UNCHANGED <<waiting_refill, in_flight>>
             ELSE ServeFinish(S1, c, idx[c], product[Srv(c)])
       /\ UNCHANGED <<idx, product, employee, gr, next_customer>>
       /\ UNCHANGED <<exited, crashed, config, granted, clock>>
\* ------------------------------------------------------ ProductiveStation
\* work(), first step: an employee is asked for at the production priority.
WorkStart ==
    \E w \in WorkIds :
       /\ Fire(InitEv(Wrk(w[1], w[2])))
       /\ Commit(StartProcess(Pop, Grw(w[1], w[2])))
       /\ gr' = [gr EXCEPT ![Grw(w[1], w[2])] = GrCall(NORMAL)]
       /\ pc' = [pc EXCEPT ![Wrk(w[1], w[2])] = "acquire1", ![Grw(w[1], w[2])] = "init"]
       /\ UNCHANGED <<waiting_refill, energy, idx, product, employee, next_customer>>
       /\ UNCHANGED <<exited, in_flight, crashed, config, granted, clock>>

\* work(): a getResource() is over; the employee is read from current_request,
\* then the preparation (first call) or the refill (second call) takes its time.
WorkAcquired ==
    \E w \in WorkIds, zero \in BOOLEAN :
       LET W == Wrk(w[1], w[2])
           m == Supplier(w[1])
       IN /\ Fire(DoneEv(Grw(w[1], w[2])))
          /\ pc[W] \in {"acquire1", "acquire2"}
          /\ IF current_request[m] = NoReq
             THEN /\ Commit(Raise([Pop EXCEPT !.exc = "AttributeError"], W))
                  /\ pc' = [pc EXCEPT ![W] = "failed", ![Grw(w[1], w[2])] = "none"]
                  /\ in_flight' = [in_flight EXCEPT ![w] = @ - 1]
                  /\ UNCHANGED employee
             ELSE /\ employee' = [employee EXCEPT ![W] = current_request[m].r]
                  /\ Commit(Timeout(Pop, W, zero))
                  /\ pc' = [pc EXCEPT ![W] = IF pc[W] = "acquire1" THEN "prepare" ELSE "refill",
                                      ![Grw(w[1], w[2])] = "none"]
                  /\ UNCHANGED in_flight
          /\ UNCHANGED <<waiting_refill, energy, idx, product, gr, next_customer>>
          /\ UNCHANGED <<exited, crashed, config, granted, clock>>

\* A work() that keeps its employee whatever the product.
AfterPreparationKept(S, w) == S

\* if not self.keep[product]: self.releaseResource()
AfterPreparation(S, w) == IF keep[w] THEN S ELSE ReleaseResource(S, Supplier(w[1]))

\* work(), after the preparation: the employee is released unless the product
\* keeps it, then the production takes its time.
WorkPrepared ==
    \E w \in WorkIds, zero \in BOOLEAN :
       LET W == Wrk(w[1], w[2])
           S1 == AfterPreparation(Pop, w)
       IN /\ Fire(TimeoutEv(W))
          /\ pc[W] = "prepare"
          /\ IF S1.exc # ""
             THEN /\ Commit(Raise(S1, W))
                  /\ pc' = [pc EXCEPT ![W] = "failed"]
                  /\ in_flight' = [in_flight EXCEPT ![w] = @ - 1]
             ELSE /\ Commit(Timeout(S1, W, zero))
                  /\ pc' = [pc EXCEPT ![W] = "produce"]
                  /\ UNCHANGED in_flight
          /\ UNCHANGED <<waiting_refill, energy, idx, product, employee, gr, next_customer>>
          /\ UNCHANGED <<exited, crashed, config, granted, clock>>

\* work(), after the production: the batch is put in the station's own container,
\* the energy of the employee is decreased, and either an employee is asked for
\* again (MEDIUM priority) or, when it was kept, the refill takes its time.
WorkProduced ==
    \E w \in WorkIds, zero \in BOOLEAN :
       LET W == Wrk(w[1], w[2])
           m == Supplier(w[1])
           S1 == Put(Pop, m, w[2], Cap(m, w[2]))
       IN /\ Fire(TimeoutEv(W))
          /\ pc[W] = "produce"
          /\ IF S1.exc # ""
             THEN /\ Commit(Raise(S1, W))
                  /\ pc' = [pc EXCEPT ![W] = "failed"]
                  /\ in_flight' = [in_flight EXCEPT ![w] = @ - 1]
                  /\ UNCHANGED <<energy, gr>>
             ELSE /\ energy' = [energy EXCEPT ![employee[W]] = @ - 1]
                  /\ UNCHANGED in_flight
                  /\ IF keep[w]
                     THEN /\ Commit(Timeout(S1, W, zero))
                          /\ pc' = [pc EXCEPT ![W] = "refill"]
                          /\ UNCHANGED gr
                     ELSE /\ Commit(StartProcess(S1, Grw(w[1], w[2])))
                          /\ gr' = [gr EXCEPT ![Grw(w[1], w[2])] = GrCall(MEDIUM)]
                          /\ pc' = [pc EXCEPT ![W] = "acquire2", ![Grw(w[1], w[2])] = "init"]
          /\ UNCHANGED <<waiting_refill, idx, product, employee, next_customer>>
          /\ UNCHANGED <<exited, crashed, config, granted, clock>>

\* A work() that ends without touching the flag of the service station.
RefilledKept(s) == waiting_refill

\* service_station.waiting_refill = False
Refilled(s) == [waiting_refill EXCEPT ![s] = FALSE]

\* A last step of work() that leaves the batch where it is.
TransferLater(S, s, pd) == S

\* The last lines of work(): the batch leaves the station's own container and is
\* put in the service station, whose waiting_refill is cleared; the employee is
\* released.
Transfer(S, s, pd) ==
    LET m == Supplier(s)
        S1 == Get(S, m, pd, Wrk(s, pd), Cap(m, pd))
    IN Put(S1, s, pd, Cap(m, pd))

WorkEnd ==
    \E w \in WorkIds :
       LET W == Wrk(w[1], w[2])
           S1 == Transfer(Pop, w[1], w[2])
           S2 == ReleaseResource(S1, Supplier(w[1]))
       IN /\ Fire(TimeoutEv(W))
          /\ pc[W] = "refill"
          /\ energy' = [energy EXCEPT ![employee[W]] = @ - 1]
          /\ in_flight' = [in_flight EXCEPT ![w] = @ - 1]
          /\ IF S1.exc # ""
             THEN /\ Commit(Raise(S1, W))
                  /\ pc' = [pc EXCEPT ![W] = "failed"]
                  /\ UNCHANGED waiting_refill
             ELSE /\ waiting_refill' = Refilled(w[1])
                  /\ IF S2.exc # ""
                     THEN /\ Commit(Raise(S2, W))
                          /\ pc' = [pc EXCEPT ![W] = "failed"]
                     ELSE /\ Commit(Schedule(S2, DoneEv(W)))
                          /\ pc' = [pc EXCEPT ![W] = "none"]
          /\ UNCHANGED <<idx, product, employee, gr, next_customer>>
          /\ UNCHANGED <<exited, crashed, config, granted, clock>>

\* ------------------------------------------------------- configurations
\* customer.py: a menu flags the stations to visit.  The first customer has any
\* menu, the customers after it all have the same one.
Menus == [Stations -> {0, 1}]
MenuConfigs == {mm \in [Customers -> Menus] : \A c \in Customers : c > 1 => mm[c] = mm[NCust]}
\* the products that keep the employee during the production: the second ones
KeepConfig == [w \in WorkIds |-> w[2] = 2]
\* main.py: reorder_levels=(0, 0, 0)
ReorderLevel == 0
\* the pools of employees given to the stations: the same tuple for every station
\* (main.py), or pools that differ from one station to the other
SharedPool == [m \in Managers |-> [i \in 1..NEmp |-> i]]
OwnPools == [m \in Managers |-> IF m \in Stations THEN [i \in 1..NEmp |-> i]
                                 ELSE <<((m - NStations - 1) % NEmp) + 1>>]
PoolConfigs == {SharedPool, OwnPools}

\* The canteen as built: stations full, suppliers empty, nobody at work.
BuiltWith(levels) ==
    /\ timers = <<>>
    /\ users = [r \in Resources |-> {}]
    /\ put_queue = [r \in Resources |-> <<>>]
    /\ level = [k \in Containers |-> [pd \in 1..MaxProducts |->
                   IF k \in Stations THEN Cap(k, pd) ELSE 0]]
    /\ get_queue = [k \in Containers |-> [pd \in 1..MaxProducts |-> <<>>]]
    /\ current_request = [m \in Managers |-> NoReq]
    /\ waiting_refill = [s \in Stations |-> FALSE]
    /\ energy = [e \in 1..(NEmp + 1) |-> InitEnergy]
    /\ pc = [p \in Procs |-> IF p = Sim THEN "init" ELSE "none"]
    /\ idx = [c \in Customers |-> 0]
    /\ product = [p \in {Srv(c) : c \in Customers} |-> 0]
    /\ employee = [p \in {Srv(c) : c \in Customers} \cup Works |-> 0]
    /\ gr = [g \in GetRes |-> GrIdle]
    /\ next_customer = 1
    /\ exited = [c \in Customers |-> FALSE]
    /\ in_flight = [w \in WorkIds |-> 0]
    /\ crashed = ""
    /\ menu \in MenuConfigs
    /\ employees \in PoolConfigs
    /\ keep = KeepConfig
    /\ reorder_levels = [s \in Stations |-> [pd \in 1..MaxProducts |-> levels]]
    /\ granted = <<>>
    /\ capacity \in 1..CanteenCapacity
    /\ now = 0
    /\ exit = [c \in Customers |-> -1]

\* main.py: reorder_levels=(0, 0, 0) for the starters, (0, ) for the pizza
Built == BuiltWith(ReorderLevel)

\* env.process(simulation(...)) has been called, env.run() is about to start.
Init ==
    /\ queue = <<InitEv(Sim)>>
    /\ Built
    /\ arrival = [c \in Customers |-> 0]

Next ==
    \/ TimersDue
    \/ ReleaseProcessed
    \/ PutProcessed
    \/ NoCallback
    \/ Crash
    \/ Simulation
    \/ ServiceStart
    \/ ServiceAdmitted
    \/ ServiceServed
    \/ ServiceFailed
    \/ ServiceAtCash
    \/ ServiceExit
    \/ PayStart
    \/ PayEnd
    \/ GetResourceStart
    \/ RequestChecked
    \/ GetResourceWon
    \/ GetResourceBack
    \/ ServeStart
    \/ SelfServeGot
    \/ ServeGot
    \/ ServeAcquired
    \/ SelfServeEnd
    \/ ServeEnd
    \/ WorkStart
    \/ WorkAcquired
    \/ WorkPrepared
    \/ WorkProduced
    \/ WorkEnd

Spec == Init /\ [][Next]_vars

\* env.run(): the loop of the environment goes on as long as an event is
\* scheduled, and the times of the timeouts are finite: a step that can be taken
\* is taken.
SpecFair == Init /\ [][Next]_vars /\ WF_vars(Next)

\* Every event of the queue has a handler: the run only stops on a crash or when
\* nothing is scheduled any more.
EveryEventHandled == (crashed = "" /\ (queue # <<>> \/ timers # <<>>)) => ENABLED Next

\* ------------------------------------------------------------------ clock
\* The same program with the clock of the environment. The arrivals are the times
\* customer.source() gives: the first one 0, each of the next ones equal to the
\* previous one or Gap later. The simulation process wakes up at the arrival it
\* waits for; every other delay is a positive time the model does not fix, so
\* that `now` counts the arrival instants exactly and stands, with the value that
\* follows an arrival instant, for every instant before the next arrival.
Gap == 2
ArrivalConfigs ==
    {a \in [Customers -> 0..((NCust - 1) * Gap)] :
        a[1] = 0 /\ \A c \in Customers : c > 1 => a[c] \in {a[c - 1], a[c - 1] + Gap}}

ArrivedAlways(c) == TRUE
\* canteen.py line 21: the customer is not waited for
Arrived(c) == arrival[c] <= now

\* the customers from c on that simulation() starts without waiting
RECURSIVE Due(_)
Due(c) == IF c > NCust \/ ~Arrived(c) THEN 0 ELSE 1 + Due(c + 1)

\* After its timeout simulation() starts the customer it waited for without
\* looking at the clock again.
SimulationClocked ==
    \/ /\ Fire(InitEv(Sim))
       /\ pc[Sim] = "init"
       /\ StartUpTo(Due(next_customer))
    \/ /\ Fire(TimeoutEv(Sim))
       /\ pc[Sim] = "timeout"
       /\ StartUpTo(1 + Due(next_customer + 1))

TimersDueClocked ==
    /\ crashed = ""
    /\ queue = <<>>
    /\ timers # <<>>
    /\ \E D \in (SUBSET (1..Len(timers))) \ {{}} :
          /\ queue' = Pick(timers, D, 1)
          /\ timers' = Pick(timers, (1..Len(timers)) \ D, 1)
          /\ now' = IF TimeoutEv(Sim) \in SeqToSet(queue') THEN arrival[next_customer]
                    ELSE IF \E c \in Customers : arrival[c] = now THEN now + 1
                    ELSE now
    /\ UNCHANGED <<users, put_queue, level, get_queue, current_request>>
    /\ UNCHANGED <<waiting_refill, energy, locals, crashed, config, granted, exit>>

InitTimed ==
    /\ queue = <<InitEv(Sim)>>
    /\ Built
    /\ menu[NCust][1] = 0
    /\ employees = OwnPools
    /\ capacity = CanteenCapacity
    /\ arrival \in ArrivalConfigs

NextTimed ==
    \/ TimersDueClocked
    \/ ReleaseProcessed
    \/ PutProcessed
    \/ NoCallback
    \/ Crash
    \/ SimulationClocked
    \/ ServiceStart
    \/ ServiceAdmitted
    \/ ServiceServed
    \/ ServiceFailed
    \/ ServiceAtCash
    \/ ServiceExit
    \/ PayStart
    \/ PayEnd
    \/ GetResourceStart
    \/ RequestChecked
    \/ GetResourceWon
    \/ GetResourceBack
    \/ ServeStart
    \/ SelfServeGot
    \/ ServeGot
    \/ ServeAcquired
    \/ SelfServeEnd
    \/ ServeEnd
    \/ WorkStart
    \/ WorkAcquired
    \/ WorkPrepared
    \/ WorkProduced
    \/ WorkEnd

SpecTimed == InitTimed /\ [][NextTimed]_vars

\* ------------------------------------------------------- a long sequence
\* A sequence of customers longer than NCust, all of them going straight to the
\* cash point: when the service() of a customer is over, its record stands for
\* the next customer of the sequence, whose arrival is the next instant
\* (simulation() is resumed by its timeout and starts the service). The sequence
\* ends after MaxPayments payments.
MaxPayments == 102

NextArrival ==
    \E c \in Customers :
       /\ crashed = ""
       /\ queue = <<>>
       /\ pc[Sim] = "done"
       /\ pc[Svc(c)] = "done"
       /\ InitEnergy - energy[CashRes] < MaxPayments
       /\ queue' = <<InitEv(Svc(c))>>
       /\ pc' = [pc EXCEPT ![Svc(c)] = "init", ![Pay(c)] = "none"]
       /\ idx' = [idx EXCEPT ![c] = 0]
       /\ exited' = [exited EXCEPT ![c] = FALSE]
       /\ exit' = [exit EXCEPT ![c] = -1]
       /\ UNCHANGED <<timers, users, put_queue, level, get_queue, current_request>>
       /\ UNCHANGED <<waiting_refill, energy, product, employee, gr, next_customer>>
       /\ UNCHANGED <<in_flight, crashed, config, granted, now>>

InitLong ==
    /\ queue = <<InitEv(Sim)>>
    /\ Built
    /\ \A c \in Customers : \A s \in Stations : menu[c][s] = 0
    /\ employees = SharedPool
    /\ capacity = CanteenCapacity
    /\ arrival = [c \in Customers |-> 0]

NextLong ==
    \/ TimersDue
    \/ ReleaseProcessed
    \/ NoCallback
    \/ Simulation
    \/ NextArrival
    \/ ServiceStart
    \/ ServiceAdmitted
    \/ ServiceAtCash
    \/ ServiceExit
    \/ PayStart
    \/ PayEnd

SpecLong == InitLong /\ [][NextLong]_vars

\* ------------------------------------------------------ reorder levels
\* Stations that ask for a replenishment before they are empty (main.py:
\* reorder_levels=(1, 1, 1) for the side dishes), visited by customers that take
\* their food at the self-service station only.
HighReorderLevel == 1

InitReorder ==
    /\ queue = <<InitEv(Sim)>>
    /\ BuiltWith(HighReorderLevel)
    /\ \A c \in Customers : menu[c][1] = 1 /\ \A s \in Stations : s > 1 => menu[c][s] = 0
    /\ employees = SharedPool
    /\ capacity = CanteenCapacity
    /\ arrival = [c \in Customers |-> 0]

NextReorder ==
    \/ TimersDue
    \/ ReleaseProcessed
    \/ PutProcessed
    \/ NoCallback
    \/ Simulation
    \/ ServiceStart
    \/ ServiceAdmitted
    \/ ServiceServed
    \/ ServiceAtCash
    \/ ServiceExit
    \/ PayStart
    \/ PayEnd
    \/ GetResourceStart
    \/ RequestChecked
    \/ GetResourceWon
    \/ ServeStart
    \/ SelfServeGot
    \/ SelfServeEnd
    \/ WorkStart
    \/ WorkAcquired
    \/ WorkPrepared
    \/ WorkProduced
    \/ WorkEnd

SpecReorder == InitReorder /\ [][NextReorder]_vars




\* ===================================================== the properties
AllRequests == UNION {users[e] \cup SeqToSet(put_queue[e]) : e \in Employees}
OwnRequests(g) == {rq \in AllRequests : rq.o = g}

\* ---- C1
\* C1: when a getResource call that found current_request unset completes, exactly
\* one employee of the pool is held on behalf of the call, and none of its requests
\* is still waiting.
BroadcastKeepsOne ==
    \A g \in GetRes :
       (pc[g] = "done" /\ gr[g].mode = "any") =>
          /\ Cardinality({e \in Employees : \E rq \in users[e] : rq.o = g}) = 1
          /\ \A e \in Employees : \A i \in 1..Len(put_queue[e]) : put_queue[e][i].o # g

\* ---- C2
\* C2: an employee is never held by more than one request at a time.
MutualExclusion == \A e \in Employees : Cardinality(users[e]) <= 1

\* An employee is held while another request waits for it.
MutualExclusionWitness ==
    \E e \in Employees : Cardinality(users[e]) = 1 /\ put_queue[e] # <<>>

\* ---- C3
\* One employee and the requests made to it, without the rest of the canteen:
\* requests of any priority arrive one after the other, the holder releases.
MaxRequests == 5
Priorities == {EXTRAORDINARY, URGENT, MEDIUM, NORMAL}
Tested == CHOOSE e \in Employees : TRUE
Issued == SeqToSet(granted) \cup users[Tested] \cup SeqToSet(put_queue[Tested])
\* The i-th request made to the employee.
Nth(i, pr) == Req(Proc("req", i, 0), Tested, pr)

PrioRequest ==
    \E pr \in Priorities :
       /\ Cardinality(Issued) < MaxRequests
       /\ Commit(Request(St, Nth(Cardinality(Issued) + 1, pr)))
       /\ UNCHANGED <<waiting_refill, energy, locals, crashed, config, granted, clock>>

PrioGranted ==
    \E rq \in users[Tested] :
       /\ Fire(RequestEv(rq))
       /\ Commit(Pop)
       /\ granted' = Append(granted, rq)
       /\ UNCHANGED <<waiting_refill, energy, locals, crashed, config, clock>>

PrioRelease ==
    \E rq \in users[Tested] :
       /\ rq \in SeqToSet(granted)
       /\ Commit(Release(St, rq))
       /\ UNCHANGED <<waiting_refill, energy, locals, crashed, config, granted, clock>>

InitPrio ==
    /\ queue = <<>>
    /\ Built
    /\ employees = SharedPool
    /\ \A c \in Customers, s \in Stations : menu[c][s] = 0
    /\ capacity = CanteenCapacity
    /\ arrival = [c \in Customers |-> 0]
NextPrio == PrioRequest \/ PrioGranted \/ PrioRelease \/ ReleaseProcessed
SpecPrio == InitPrio /\ [][NextPrio]_vars

\* ----------------------------------------------------- the MultiStore alone
\* get() and put() called on the containers of the service stations with every
\* amount, one call per instant, by a process that does not wait for them (as
\* work() does); the events are processed as in a run.
Amounts == 1..StoreCapacity

StoreGet ==
    \E k \in Stations, pd \in 1..MaxProducts, amount \in Amounts :
       /\ pd \in Products(k)
       /\ crashed = ""
       /\ queue = <<>>
       /\ get_queue[k][pd] = <<>>
       /\ Commit(Get(St, k, pd, Wrk(k, pd), amount))
       /\ UNCHANGED <<waiting_refill, energy, locals, crashed, config, granted, clock>>

StorePut ==
    \E k \in Stations, pd \in 1..MaxProducts, amount \in Amounts :
       /\ pd \in Products(k)
       /\ crashed = ""
       /\ queue = <<>>
       /\ LET S1 == Put(St, k, pd, amount)
          IN /\ Commit(S1)
             /\ crashed' = S1.exc
       /\ UNCHANGED <<waiting_refill, energy, locals, config, granted, clock>>

NextStore ==
    \/ StoreGet
    \/ StorePut
    \/ PutProcessed
    \/ NoCallback

SpecStore == InitPrio /\ [][NextStore]_vars

\* a is served before b: smaller priority value, or the same and made earlier
Before(a, b) == a.pr < b.pr \/ (a.pr = b.pr /\ a.o.i < b.o.i)

\* C3: the request granted on an employee comes before every request left waiting
\* (smaller priority value, and among equal values the one made first); requests
\* of priority 5, 1, 7, 1 made in this order while the employee is busy wait in
\* the order 1 (first), 1 (second), 5, 7.
PriorityOrder ==
    /\ [][\A h \in users'[Tested] \ users[Tested] :
             \A i \in 1..Len(put_queue'[Tested]) : Before(h, put_queue'[Tested][i])]_vars
    /\ [](\A i, j \in 1..Len(put_queue[Tested]) :
             i < j => Before(put_queue[Tested][i], put_queue[Tested][j]))
    /\ [](SeqToSet(put_queue[Tested]) = {Nth(2, 5), Nth(3, 1), Nth(4, 7), Nth(5, 1)}
             => put_queue[Tested] = <<Nth(3, 1), Nth(5, 1), Nth(2, 5), Nth(4, 7)>>)

\* The four requests of the example have been granted in the claimed order.
PriorityOrderWitness ==
    \E pr \in Priorities :
       granted = <<Nth(1, pr), Nth(3, 1), Nth(5, 1), Nth(2, 5), Nth(4, 7)>>

\* ---- C4
\* C4: a getResource call that finds the station's current_request set makes one
\* request only, to the employee of that current_request and at EXTRAORDINARY
\* priority; it has no other request while it waits, and it goes on only once
\* that request holds the employee, which becomes the current_request.
Affinity ==
    /\ [][\A g \in GetRes :
             LET m == ManagerOf(g)
                 rq == Req(g, current_request[m].r, EXTRAORDINARY)
             IN /\ (pc[g] = "init" /\ pc'[g] = "wait" /\ current_request[m] # NoReq) =>
                      /\ OwnRequests(g)' \ OwnRequests(g) = {rq}
                      /\ rq \in users'[rq.r] \cup SeqToSet(put_queue'[rq.r])
                /\ (pc[g] = "wait" /\ gr[g].mode = "ext" /\ pc'[g] # "wait") =>
                      /\ Req(g, gr[g].target, EXTRAORDINARY) \in users[gr[g].target]
                      /\ current_request'[m] = Req(g, gr[g].target, EXTRAORDINARY)]_vars
    /\ [](\A g \in GetRes :
             (pc[g] = "wait" /\ gr[g].mode = "ext") =>
                OwnRequests(g) = {Req(g, gr[g].target, EXTRAORDINARY)})

\* A call that found the current_request set has completed on the same employee.
AffinityWitness ==
    \E g \in GetRes :
       /\ pc[g] = "done"
       /\ gr[g].mode = "ext"
       /\ current_request[ManagerOf(g)] = Req(g, gr[g].target, EXTRAORDINARY)

\* ---- C5
\* The process whose next step calls releaseResource() on manager m, if any.
Releaser(m) ==
    IF crashed = "" /\ queue # <<>> /\ Head(queue).k = "timeout"
    THEN LET p == Head(queue).p
         IN IF p.t = "srv" /\ idx[p.i] = m /\ Kind(idx[p.i]) = "attended" THEN p
            ELSE IF /\ p.t = "wrk"
                    /\ Supplier(p.i) = m
                    /\ (pc[p] = "refill" \/ (pc[p] = "prepare" /\ ~keep[<<p.i, p.j>>]))
                 THEN p
            ELSE NoProc
    ELSE NoProc

\* C5: releaseResource() called with no current_request raises ResourceError and
\* leaves users, queues and current_request as they are; called with one, it
\* takes that request, and only it, off its employee and unsets current_request.
ReleaseContract ==
    [][\A m \in Managers :
          Releaser(m) # NoProc =>
             IF current_request[m] = NoReq
             THEN /\ users' = users
                  /\ put_queue' = put_queue
                  /\ current_request' = current_request
                  /\ queue' = Append(Tail(queue), FailEv(Releaser(m), "ResourceError"))
             ELSE /\ users' = [users EXCEPT ![current_request[m].r] = @ \ {current_request[m]}]
                  /\ put_queue' = put_queue
                  /\ current_request' = [current_request EXCEPT ![m] = NoReq]]_vars

\* A releaseResource() found nothing to release and raised.
ReleaseContractWitness == \E i \in 1..Len(queue) : queue[i].k = "ResourceError"

\* ---- C6
\* C6: the level of every product of every container stays between 0 and the
\* capacity of the product.
CapacityInvariant ==
    \A k \in Containers, pd \in 1..MaxProducts : 0 <= level[k][pd] /\ level[k][pd] <= Cap(k, pd)

\* A product is sold out at its station while its new batch fills the supplier.
CapacityWitness ==
    \E s \in Stations, pd \in 1..MaxProducts :
       level[s][pd] = 0 /\ level[Supplier(s)][pd] = Cap(Supplier(s), pd)

\* ---- C7
\* C7: no product of a station has more than one work() in flight, and no work()
\* is started for a station while its waiting_refill is set.
SingleReplenishment ==
    /\ [](\A w \in WorkIds : in_flight[w] <= 1)
    /\ [][\A w \in WorkIds : waiting_refill[w[1]] => in_flight'[w] <= in_flight[w]]_vars

\* Two customers have just ended serve() on the same sold-out product, and one
\* work() is in flight for it.
SingleReplenishmentWitness ==
    \E c, d \in Customers :
       /\ c # d
       /\ pc[Srv(c)] = "done" /\ pc[Srv(d)] = "done"
       /\ idx[c] = idx[d] /\ product[Srv(c)] = product[Srv(d)]
       /\ level[idx[c]][product[Srv(c)]] <= reorder_levels[idx[c]][product[Srv(c)]]
       /\ waiting_refill[idx[c]]
       /\ in_flight[<<idx[c], product[Srv(c)]>>] = 1

\* ---- C8
\* C8: waiting_refill of a station is set exactly while a work() for that station
\* is between its start and its last step.
RefillFlag ==
    \A s \in Stations :
       waiting_refill[s] <=> \E pd \in Products(s) : pc[Wrk(s, pd)] \notin {"none", "failed"}

\* A work() is at its last wait, the flag of its station still set.
RefillFlagWitness ==
    \E w \in WorkIds : pc[Wrk(w[1], w[2])] = "refill" /\ waiting_refill[w[1]]

\* ---- C9
\* C9: at the step that completes a serve(), if the level of the product served is
\* at or under its reorder level, a work() for that product is in flight.
ReplenishmentGuaranteed ==
    [][\A c \in Customers :
          (pc[Srv(c)] = "timeout" /\ pc'[Srv(c)] = "done") =>
             (level'[idx[c]][product[Srv(c)]] <= reorder_levels[idx[c]][product[Srv(c)]]
                 => in_flight'[<<idx[c], product[Srv(c)]>>] >= 1)]_vars

\* ---- C10
\* Customer c is suspended at the get of its product.
Waiting(c) ==
    /\ pc[Srv(c)] = "get"
    /\ \E i \in 1..Len(get_queue[idx[c]][product[Srv(c)]]) :
          get_queue[idx[c]][product[Srv(c)]][i].p = Srv(c)
\* The customers whose get of product pd at station s is satisfied by the step.
Obtaining(s, pd) ==
    {d \in Customers : /\ GetEv(Srv(d), s, pd) \in SeqToSet(queue')
                       /\ GetEv(Srv(d), s, pd) \notin SeqToSet(queue)}

\* C10: a customer that asks for a product whose level is 0 is left waiting at
\* the get; a waiting customer stops waiting only in a step that finds the level
\* at 1 or more, and that step takes one unit for each customer it serves.
BlockedAtZero ==
    [][\A c \in Customers :
          LET s == idx[c]
              pd == product[Srv(c)]
          IN /\ (pc[Srv(c)] = "init" /\ pc'[Srv(c)] = "get" /\ level[s][pd] = 0) =>
                   Waiting(c)' /\ level'[s][pd] = 0
             /\ (Waiting(c) /\ ~Waiting(c)') =>
                   /\ level[s][pd] >= 1
                   /\ c \in Obtaining(s, pd)
                   /\ level'[s][pd] = level[s][pd] - Cardinality(Obtaining(s, pd))]_vars

\* A customer waits for a sold-out product while the work() that will refill it
\* is at its last wait.
BlockedAtZeroWitness ==
    \E c \in Customers :
       /\ Waiting(c)
       /\ level[idx[c]][product[Srv(c)]] = 0
       /\ pc[Wrk(idx[c], product[Srv(c)])] = "refill"

\* ---- C11
\* C11: the customers holding a place in the canteen are never more than its
\* capacity; the customers let in by a step are the ones that waited longest, a
\* customer that asks while others wait goes behind them, and a customer is let
\* in at once only when nobody waits.
CanteenAdmission ==
    /\ [](Cardinality(users[CanteenRes]) <= capacity)
    /\ [][LET q == put_queue[CanteenRes]
              admitted == users'[CanteenRes] \ users[CanteenRes]
          IN /\ \E k \in 0..Len(q) :
                   LET rest == SubSeq(q, k + 1, Len(q))
                   IN /\ {q[i] : i \in 1..k} = admitted \cap SeqToSet(q)
                      /\ \/ put_queue'[CanteenRes] = rest
                         \/ \E c \in Customers :
                               /\ CanteenReq(c) \notin SeqToSet(q)
                               /\ put_queue'[CanteenRes] = Append(rest, CanteenReq(c))
             /\ (admitted \ SeqToSet(q) # {}) => q = <<>>]_vars

\* With one place only, the first customer has left, the second is inside and
\* the third waits outside.
CanteenAdmissionWitness ==
    /\ capacity = 1
    /\ exited[1]
    /\ users[CanteenRes] = {CanteenReq(2)}
    /\ put_queue[CanteenRes] = <<CanteenReq(3)>>

\* ---- C12
\* C12: a service() that has ended, after the payment or with the error of a
\* station, holds no place in the canteen: the step that ends it releases the
\* place, and a free place with a customer waiting outside always has its
\* release event pending, at which the customer is let in.
SlotReleased ==
    /\ [](\A c \in Customers :
             pc[Svc(c)] \in {"done", "failed"} => CanteenReq(c) \notin users[CanteenRes])
    /\ [][\A c \in Customers :
             (pc[Svc(c)] \notin {"done", "failed"} /\ pc'[Svc(c)] \in {"done", "failed"}) =>
                /\ CanteenReq(c) \in users[CanteenRes]
                /\ CanteenReq(c) \notin users'[CanteenRes]
                /\ ReleaseEv(CanteenRes) \in SeqToSet(queue')]_vars
    /\ []((put_queue[CanteenRes] # <<>> /\ Cardinality(users[CanteenRes]) < capacity)
             => ReleaseEv(CanteenRes) \in SeqToSet(queue))

\* A service() has failed and the customer that waited outside has its place.
SlotReleasedWitness ==
    \E c, d \in Customers :
       /\ pc[Svc(c)] = "failed"
       /\ CanteenReq(d) \in users[CanteenRes]
       /\ RequestEv(CanteenReq(d)) \in SeqToSet(queue)

\* The process a request was made for: getResource() works for the serve() or the
\* work() that called it, service() asks for the cash point pay() works at.
Behalf(o) ==
    IF o.t = "grc" THEN Srv(o.i)
    ELSE IF o.t = "grw" THEN Wrk(o.i, o.j)
    ELSE IF o.t = "svc" THEN Pay(o.i)
    ELSE o

\* C15: the energy of an employee changes only in a step of a process that holds
\* this employee at that moment: one of the requests in the users of the employee
\* was made for the process that is running.
EnergyByHolder ==
    [][\A e \in DOMAIN energy :
          energy'[e] # energy[e] =>
             \E rq \in users[e] : Behalf(rq.o) = Head(queue).p]_vars

\* C13: service() moves on only when the serve() it waited for is over, and then
\* to the next station of the menu whose bit is 1, no flagged station being
\* skipped, or to the cash point when none is left; a serve() is started only by
\* such a move; pay() is started only from the granted cash point, which a
\* service() asks for once; the exit is recorded once, when pay() is over, with
\* the time of the clock, which is not earlier than the arrival.
VisitOrder ==
    /\ [][\A c \in Customers :
            /\ idx'[c] # idx[c] =>
                  /\ idx[c] = 0 \/ pc[Srv(c)] = "done"
                  /\ idx'[c] > idx[c]
                  /\ \A s \in Stations : (idx[c] < s /\ s < idx'[c]) => menu[c][s] = 0
                  /\ idx'[c] \in Stations => menu[c][idx'[c]] = 1 /\ pc'[Srv(c)] = "init"
                  /\ idx'[c] \notin Stations => pc[Svc(c)] # "cash" /\ pc'[Svc(c)] = "cash"
            /\ (pc[Srv(c)] # "init" /\ pc'[Srv(c)] = "init") => idx'[c] # idx[c]
            /\ (pc[Svc(c)] # "cash" /\ pc'[Svc(c)] = "cash") => idx'[c] # idx[c]
            /\ (pc[Pay(c)] # "init" /\ pc'[Pay(c)] = "init") =>
                  pc[Svc(c)] = "cash" /\ pc[Pay(c)] = "none" /\ CashReq(c) \in users[CashRes]
            /\ exit'[c] # exit[c] =>
                  exit[c] = -1 /\ exit'[c] = now /\ pc[Pay(c)] = "done" /\ pc'[Svc(c)] = "done"]_vars
    /\ [](\A c \in Customers : exit[c] # -1 => exit[c] >= arrival[c])

VisitOrderWitness ==
    \E c, d \in Customers :
       /\ \A s \in Stations : menu[c][s] = 1
       /\ exit[c] > arrival[c]
       /\ arrival[d] > 0
       /\ exit[d] >= arrival[d]

\* C14: a service is started only when the clock has reached the arrival of its
\* customer; the customers started so far are always the first ones of the
\* sequence, and the services started in one step are scheduled in the order of
\* the sequence; simulation() waits exactly when the next arrival is in the
\* future, and it is resumed at that arrival, not before and not after.
ArrivalRespected ==
    /\ [](\A c \in Customers : pc[Svc(c)] # "none" <=> c < next_customer)
    /\ [](pc[Sim] = "timeout" =>
             /\ next_customer \in Customers
             /\ \/ TimeoutEv(Sim) \in SeqToSet(timers) /\ now < arrival[next_customer]
                \/ TimeoutEv(Sim) \in SeqToSet(queue) /\ now = arrival[next_customer])
    /\ [][\A c \in Customers :
            (pc[Svc(c)] = "none" /\ pc'[Svc(c)] # "none") =>
               /\ arrival[c] <= now
               /\ now' = now
               /\ pc'[Svc(c)] = "init"
               /\ \A d \in Customers : d < c => pc'[Svc(d)] # "none"
               /\ \A d \in Customers :
                     (c < d /\ pc[Svc(d)] = "none" /\ pc'[Svc(d)] # "none") =>
                        \E i, j \in 1..Len(queue') :
                           /\ i < j
                           /\ queue'[i] = InitEv(Svc(c))
                           /\ queue'[j] = InitEv(Svc(d))]_vars

ArrivalRespectedWitness ==
    /\ now > 0
    /\ arrival[2] = now
    /\ arrival[3] = now
    /\ Len(queue) >= 2
    /\ SubSeq(queue, 1, 2) = <<InitEv(Svc(2)), InitEv(Svc(3))>>

\* C16: the energy of every employee, the one of the cash point included, is
\* within 0..100 in every state and no step increases it.
EnergyRange ==
    /\ [](\A e \in DOMAIN energy : 0 <= energy[e] /\ energy[e] <= 100)
    /\ [][\A e \in DOMAIN energy : energy'[e] <= energy[e]]_vars

\* C17: a request leaves the users of an employee only in a step that calls
\* releaseResource() on the manager holding it as current_request, and no other
\* request takes its place in that step; a request is granted only on an employee
\* that has no user, so that a request made while the employee is held, whatever
\* its priority, waits.
NoPreemption ==
    [][\A e \in Employees :
          /\ \A rq \in users[e] \ users'[e] :
                /\ \E m \in Managers : Releaser(m) # NoProc /\ current_request[m] = rq
                /\ users'[e] \subseteq users[e]
          /\ users'[e] \ users[e] # {} => users[e] = {}]_vars

\* an EXTRAORDINARY request waits for an employee held at a lower priority
NoPreemptionWitness ==
    \E e \in Employees :
       /\ \E u \in users[e] : u.pr > EXTRAORDINARY
       /\ \E i \in 1..Len(put_queue[e]) : put_queue[e][i].pr = EXTRAORDINARY

\* C20: while work() waits for its preparation or its refill, the current_request
\* of its station is a request of its own getResource() that holds the employee
\* it works with; while it waits for the production this is so exactly when the
\* keep flag of the product is set. With the flag unset the request is released
\* when the preparation ends and getResource(MEDIUM) is called when the
\* production ends; with the flag set no second getResource() is called and the
\* request and the employee stay the same until the release that ends work().
WorkHolds ==
    /\ [](\A w \in WorkIds :
            LET W == Wrk(w[1], w[2])
                rq == current_request[Supplier(w[1])]
                holds == /\ rq # NoReq
                         /\ rq.o = Grw(w[1], w[2])
                         /\ rq.r = employee[W]
                         /\ rq \in users[rq.r]
            IN /\ pc[W] \in {"prepare", "refill"} => holds
               /\ pc[W] = "produce" => (holds <=> keep[w])
               /\ (pc[W] = "produce" /\ ~keep[w]) => rq = NoReq
               /\ pc[W] = "acquire2" => ~keep[w]
               /\ (pc[W] = "refill" /\ ~keep[w]) => rq.pr \in {MEDIUM, EXTRAORDINARY}
               /\ (pc[W] = "refill" /\ keep[w]) => rq.pr \in {NORMAL, EXTRAORDINARY})
    /\ [][\A w \in WorkIds :
            LET W == Wrk(w[1], w[2])
                m == Supplier(w[1])
            IN /\ (pc[W] = "prepare" /\ pc'[W] = "produce" /\ ~keep[w]) =>
                     /\ current_request[m] \notin users'[current_request[m].r]
                     /\ ReleaseEv(current_request[m].r) \in SeqToSet(queue')
               /\ (pc[W] = "produce" /\ pc'[W] # "produce" /\ ~keep[w]) =>
                     /\ pc'[W] \in {"acquire2", "failed"}
                     /\ pc'[W] = "acquire2" =>
                           /\ gr'[Grw(w[1], w[2])] = GrCall(MEDIUM)
                           /\ InitEv(Grw(w[1], w[2])) \in SeqToSet(queue')
               /\ (keep[w] /\ pc[W] \in {"prepare", "produce", "refill"}
                           /\ pc'[W] \in {"prepare", "produce", "refill"}) =>
                     /\ current_request'[m] = current_request[m]
                     /\ employee'[W] = employee[W]
                     /\ pc'[Grw(w[1], w[2])] = "none"
               /\ (pc[W] = "refill" /\ pc'[W] = "none") =>
                     /\ current_request'[m] = NoReq
                     /\ current_request[m] \notin users'[current_request[m].r]]_vars

\* one work() produces with its employee kept while another one, which released
\* its employee, refills with an employee obtained at MEDIUM priority
WorkHoldsWitness ==
    \E w, v \in WorkIds :
       /\ keep[w]
       /\ pc[Wrk(w[1], w[2])] = "produce"
       /\ ~keep[v]
       /\ pc[Wrk(v[1], v[2])] = "refill"
       /\ current_request[Supplier(v[1])].pr = MEDIUM

IsInit(ev) == ev.k = "init"
IsNormal(ev) == ev.k # "init"
IsPrefix(s, t) == Len(s) <= Len(t) /\ SubSeq(t, 1, Len(s)) = s

\* C19 as stated: the event processed is the oldest one of the instant and every
\* event scheduled while it is processed comes after all the events that were
\* already due (plain FIFO); the timeouts that become due together are processed
\* in the order they were created; the clock never goes back.
TieBreakFifo ==
    [][/\ queue # <<>> =>
             /\ IsPrefix(Tail(queue), queue')
             /\ IsPrefix(timers, timers')
             /\ now' = now
       /\ queue = <<>> =>
             /\ \E D \in SUBSET (1..Len(timers)) :
                   /\ queue' = Pick(timers, D, 1)
                   /\ timers' = Pick(timers, (1..Len(timers)) \ D, 1)
             /\ now' >= now]_vars

\* C19, amended: the events of an instant are processed in scheduling order within
\* each of two classes, the starts of processes and all the other events; the
\* starts of processes come before the other events of the instant, also before
\* those scheduled earlier. Nothing else reorders events, the timeouts that
\* become due together keep their creation order, and the clock never goes back.
TieBreak ==
    /\ [](queue = SelectSeq(queue, IsInit) \o SelectSeq(queue, IsNormal))
    /\ [][/\ queue # <<>> =>
                /\ IsPrefix(SelectSeq(Tail(queue), IsInit), SelectSeq(queue', IsInit))
                /\ IsPrefix(SelectSeq(Tail(queue), IsNormal), SelectSeq(queue', IsNormal))
                /\ IsPrefix(timers, timers')
                /\ now' = now
          /\ queue = <<>> =>
                /\ \E D \in SUBSET (1..Len(timers)) :
                      /\ queue' = Pick(timers, D, 1)
                      /\ timers' = Pick(timers, (1..Len(timers)) \ D, 1)
                /\ now' >= now]_vars

\* the start of a process is ahead of two timeouts that became due together
TieBreakWitness ==
    /\ now > 0
    /\ Len(queue) >= 3
    /\ queue[1].k = "init"
    /\ queue[2].k = "timeout"
    /\ queue[3].k = "timeout"

TransferConserves ==
    [][\A w \in WorkIds :
          LET W == Wrk(w[1], w[2])
              m == Supplier(w[1])
          IN (pc[W] = "refill" /\ pc'[W] = "none") =>
                /\ level[m][w[2]] - level'[m][w[2]] = Cap(m, w[2])
                /\ level'[w[1]][w[2]] - level[w[1]][w[2]] = level[m][w[2]] - level'[m][w[2]]]_vars

\* C22: the four effects of the last step of work() (the batch leaves the
\* productive station, the service station receives it, its waiting_refill is
\* cleared, the employee is released) take place in one and the same step, the
\* one that ends the work(): a step that has one of them has them all, and while
\* the work() waits for its refill delay none of them has taken place.
FinalStepAtomic ==
    /\ [](\A w \in WorkIds :
            pc[Wrk(w[1], w[2])] = "refill" =>
               /\ level[Supplier(w[1])][w[2]] = Cap(Supplier(w[1]), w[2])
               /\ waiting_refill[w[1]]
               /\ current_request[Supplier(w[1])] # NoReq)
    /\ [][\A w \in WorkIds :
            LET W == Wrk(w[1], w[2])
                m == Supplier(w[1])
                ends == pc[W] = "refill" /\ pc'[W] = "none"
                removed == level'[m][w[2]] < level[m][w[2]]
                added == level'[w[1]][w[2]] > level[w[1]][w[2]]
                cleared == waiting_refill[w[1]] /\ ~waiting_refill'[w[1]]
                released == /\ current_request[m] # NoReq
                            /\ current_request'[m] = NoReq
                            /\ current_request[m] \notin users'[current_request[m].r]
            IN /\ ends => removed /\ added /\ cleared /\ released
               /\ removed => ends
               /\ added => ends
               /\ (cleared /\ pc[W] # "none") => ends
               /\ (pc[W] = "refill" /\ current_request'[m] # current_request[m]) => ends]_vars

\* a work() has just ended: the batch is in the service station, the flag is
\* cleared, the employee is free, and none of the events of the step has been
\* processed yet
FinalStepAtomicWitness ==
    \E w \in WorkIds :
       /\ queue # <<>>
       /\ queue[Len(queue)] = DoneEv(Wrk(w[1], w[2]))
       /\ PutEv(w[1], w[2]) \in SeqToSet(queue)
       /\ level[w[1]][w[2]] = Cap(w[1], w[2])
       /\ level[Supplier(w[1])][w[2]] = 0
       /\ ~waiting_refill[w[1]]
       /\ current_request[Supplier(w[1])] = NoReq

\* C23: a get is left waiting only on an empty container: with a level of at
\* least 1 it completes in the step that makes it, and it takes the amount asked
\* or, when the level is lower, the level.
GetClamps ==
    /\ [](\A k \in Containers, pd \in 1..MaxProducts :
            get_queue[k][pd] # <<>> => level[k][pd] = 0)
    /\ [][\A k \in Containers, pd \in 1..MaxProducts :
            (queue = <<>> /\ level[k][pd] >= 1 /\ get_queue[k][pd] = <<>>
                /\ <<get_queue[k][pd], level[k][pd]>>' # <<get_queue[k][pd], level[k][pd]>>
                /\ level'[k][pd] <= level[k][pd]) =>
               /\ get_queue'[k][pd] = <<>>
               /\ level'[k][pd] < level[k][pd]
               /\ GetEv(Wrk(k, pd), k, pd) \in SeqToSet(queue')]_vars

\* C24: the step that follows the service delay ends serve(): its completion is
\* scheduled in that step (for an attended station the employee is released in
\* it too), also when the step starts a work(), which is a process of its own,
\* started and not waited for; and when the completion of serve() is processed
\* the service() of the customer goes on to its next station or to the cash
\* point, whatever the work() processes in flight.
FireAndForget ==
    /\ [][\A c \in Customers :
            /\ (pc[Srv(c)] = "timeout" /\ pc'[Srv(c)] # "timeout") =>
                  /\ pc'[Srv(c)] \in {"done", "failed"}
                  /\ pc'[Srv(c)] = "done" =>
                        /\ queue'[Len(queue')] = DoneEv(Srv(c))
                        /\ Kind(idx[c]) = "attended" =>
                              /\ current_request'[idx[c]] = NoReq
                              /\ current_request[idx[c]] \notin users'[current_request[idx[c]].r]
                        /\ \A w \in WorkIds :
                              in_flight'[w] > in_flight[w] =>
                                 /\ w = <<idx[c], product[Srv(c)]>>
                                 /\ pc'[Wrk(w[1], w[2])] = "init"
                                 /\ InitEv(Wrk(w[1], w[2])) \in SeqToSet(queue')
            /\ (crashed = "" /\ queue # <<>> /\ Head(queue) = DoneEv(Srv(c))
                    /\ pc[Svc(c)] = "serve") =>
                  \/ pc'[Svc(c)] = "cash"
                  \/ pc'[Svc(c)] = "serve" /\ idx'[c] > idx[c] /\ pc'[Srv(c)] = "init"]_vars
    /\ [](\A c \in Customers :
            (crashed = "" /\ queue # <<>> /\ Head(queue) = DoneEv(Srv(c))
                /\ pc[Svc(c)] = "serve") => ENABLED ServiceServed)

\* the only customer that came has left while the work() its serve() started is
\* still at its preparation
FireAndForgetWitness ==
    /\ next_customer = 2
    /\ exited[1]
    /\ \E w \in WorkIds : pc[Wrk(w[1], w[2])] = "prepare" /\ in_flight[w] = 1

\* C25: the step that starts the delay of a payment leaves the energy of the
\* cash point's employee as it is, the step that ends the delay decreases it by
\* exactly one, no other step changes it, and the exit of the customer is
\* recorded after that step.
PayOrder ==
    [][/\ \A c \in Customers :
             /\ (pc[Pay(c)] # "timeout" /\ pc'[Pay(c)] = "timeout") =>
                   energy'[CashRes] = energy[CashRes]
             /\ (pc[Pay(c)] = "timeout" /\ pc'[Pay(c)] = "done") =>
                   energy'[CashRes] = energy[CashRes] - 1
             /\ exit'[c] # exit[c] => pc[Pay(c)] = "done" /\ energy'[CashRes] = energy[CashRes]
       /\ energy'[CashRes] # energy[CashRes] =>
             \E c \in Customers : pc[Pay(c)] = "timeout" /\ pc'[Pay(c)] = "done"]_vars

\* C26: the customers whose service() is at pay are never more than the capacity
\* of the cash point, and each of them holds a slot of it; a customer that waits
\* for the cash point, or pays, holds its place in the canteen; the step that
\* ends the visit releases the cash point first and the canteen second.
CashExclusive ==
    /\ [](Cardinality({c \in Customers : pc[Svc(c)] = "pay"}) <= CashCapacity)
    /\ [](\A c \in Customers :
            /\ pc[Svc(c)] = "pay" => CashReq(c) \in users[CashRes]
            /\ pc[Pay(c)] \in {"init", "timeout"} => pc[Svc(c)] = "pay"
            /\ pc[Svc(c)] \in {"cash", "pay"} => CanteenReq(c) \in users[CanteenRes]
            /\ CashReq(c) \in users[CashRes] \cup SeqToSet(put_queue[CashRes]) =>
                  CanteenReq(c) \in users[CanteenRes])
    /\ [][\A c \in Customers :
            (pc[Svc(c)] = "pay" /\ pc'[Svc(c)] # "pay") =>
               /\ Len(queue') >= 3
               /\ SubSeq(queue', Len(queue') - 2, Len(queue')) =
                     <<ReleaseEv(CashRes), ReleaseEv(CanteenRes), DoneEv(Svc(c))>>
               /\ CashReq(c) \notin users'[CashRes]
               /\ CanteenReq(c) \notin users'[CanteenRes]]_vars

\* one customer pays while another one, inside the canteen, waits for the cash point
CashExclusiveWitness ==
    \E c, d \in Customers :
       /\ pc[Pay(c)] = "timeout"
       /\ pc[Svc(d)] = "cash"
       /\ put_queue[CashRes] = <<CashReq(d)>>
       /\ CanteenReq(d) \in users[CanteenRes]

\* C27: whenever a serve() or a work() calls releaseResource(), the request it
\* releases is the one its own getResource() obtained; during the service time of
\* a serve() and the preparation or refill time of a work(), the employee the
\* process recorded is held by a request of that process's own getResource().
OwnRequest ==
    /\ [][\A m \in Managers :
            Releaser(m) # NoProc =>
               /\ current_request[m] # NoReq
               /\ ParentOf(current_request[m].o) = Releaser(m)]_vars
    /\ [](\A c \in Customers :
            (idx[c] \in Stations /\ Kind(idx[c]) = "attended" /\ pc[Srv(c)] = "timeout") =>
               \E rq \in users[employee[Srv(c)]] : rq.o = Grc(c))
    /\ [](\A w \in WorkIds :
            pc[Wrk(w[1], w[2])] \in {"prepare", "refill"} =>
               \E rq \in users[employee[Wrk(w[1], w[2])]] : rq.o = Grw(w[1], w[2]))

\* C28: no serve() and no work() ever calls releaseResource() while the
\* current_request of its station is None: no process fails with ResourceError
\* and the run never ends with it.
NoResourceError ==
    /\ crashed # "ResourceError"
    /\ \A i \in 1..Len(queue) : queue[i].k # "ResourceError"
    /\ \A m \in Managers : Releaser(m) # NoProc => current_request[m] # NoReq

\* C29: every request that holds an employee either belongs to a getResource()
\* that is still running or is the current_request of a station; and when no
\* serve(), work() or getResource() is running, every employee is free.
NoEmployeeLeak ==
    /\ \A e \in Employees : \A rq \in users[e] :
          \/ pc[rq.o] \in {"init", "wait"}
          \/ \E m \in Managers : current_request[m] = rq
    /\ (/\ \A c \in Customers : pc[Srv(c)] \in {"none", "done"}
        /\ \A w \in WorkIds : pc[Wrk(w[1], w[2])] \in {"none", "done"}
        /\ \A g \in GetRes : pc[g] \in {"none", "done"})
          => \A e \in Employees : users[e] = {}

\* C30: a customer of an attended station that is suspended at the get of its
\* product holds no employee, has no request waiting on one and has no
\* getResource() started or about to start; a getResource() runs for a customer
\* only while its serve() is past the get and waits for it, and it is started
\* only by the step that processes the event of that get.
ProductFirst ==
    /\ [](\A c \in Customers :
            (idx[c] \in Stations /\ Kind(idx[c]) = "attended" /\ Waiting(c)) =>
               /\ OwnRequests(Grc(c)) = {}
               /\ pc[Grc(c)] = "none"
               /\ InitEv(Grc(c)) \notin SeqToSet(queue))
    /\ [](\A c \in Customers :
            (InitEv(Grc(c)) \in SeqToSet(queue) \/ pc[Grc(c)] # "none") =>
               pc[Srv(c)] = "acquire")
    /\ [][\A c \in Customers :
            (pc[Grc(c)] # "init" /\ pc'[Grc(c)] = "init") =>
               /\ pc[Srv(c)] = "get"
               /\ Head(queue) = GetEv(Srv(c), idx[c], product[Srv(c)])]_vars

\* a customer waits at an attended station whose product is at 0 while the work()
\* that refills the station is asking for an employee
ProductFirstWitness ==
    \E c \in Customers :
       /\ Kind(idx[c]) = "attended"
       /\ Waiting(c)
       /\ level[idx[c]][product[Srv(c)]] = 0
       /\ pc[Wrk(idx[c], product[Srv(c)])] \in {"acquire1", "acquire2"}
       /\ OwnRequests(Grw(idx[c], product[Srv(c)])) # {}

\* C31: every customer whose service() has started, i.e. has asked for the
\* canteen, eventually records its exit, unless the run has stopped on an
\* exception before.
EveryCustomerExits ==
    \A c \in Customers : (pc[Svc(c)] = "canteen") ~> (exited[c] \/ crashed # "")
====
